---- MODULE Spec2Model ----
(***************************************************************************)
(* ArucasJsonToMd: AllDocs.json -> Classes.md, Extensions.md.              *)
(*                                                                         *)
(* Text is a sequence of tokens.  The characters the code inspects are     *)
(* tokens of their own ("\n", "\t", " "); a literal of the code without a  *)
(* newline ("## Methods", "- Example:") is one token, and so is a name or  *)
(* a description line of the input.  A TLA+ string cannot hold a backtick, *)
(* so the backtick of the code is written ^ in every token.                *)
(*                                                                         *)
(* Option<T> is a record: None, or Some(v).  A call that can panic         *)
(* (unwrap / expect) returns a tagged record.                              *)
(***************************************************************************)
EXTENDS Naturals, Sequences, FiniteSets

VARIABLES
    pc,         \* position of the running code
    md,         \* the String being built (doc_parser.rs `md`)
    json,       \* main: the input file AllDocs.json
    files,      \* main: the two output files on disk
    io,         \* main: number of fs calls made per path
    failure,    \* main: the failure that happened, "none" if none
    section,    \* function loop: which loop runs, with its namespace
    functions,  \* function loop: the Vec being iterated
    i,          \* function loop / examples loop: entries consumed
    func_s,     \* function loop: result of the last add_function call
    seps,       \* function loop: separators pushed by the loop so far
    rendered,   \* function loop: entries for which add_function gave Some
    mark,       \* Len(md) when the current loop iteration began
    examples,   \* add_examples: its `examples` argument
    class_v     \* parse_class: its `class_v` argument

vars == <<pc, md, json, files, io, failure, section, functions, i, func_s,
          seps, rendered, mark, examples, class_v>>

----------------------------------------------------------------------------
(* Bounds of the model *)

MaxClasses == 2
MaxGroups == 2
MaxFns == 2
MaxMembers == 1
MaxExamples == 2
MaxLen == 2

----------------------------------------------------------------------------
(* Option and results *)

None == [some |-> FALSE]
Some(x) == [some |-> TRUE, v |-> x]

Panic == [tag |-> "panic"]
Ok(s) == [tag |-> "ok", md |-> s]

SeqsUpTo(S, n) == UNION {[1..k -> S] : k \in 0..n}

Last(s) == s[Len(s)]
Front(s) == SubSeq(s, 1, Len(s) - 1)

----------------------------------------------------------------------------
(* doc_parser.rs: the renderers *)

RECURSIVE add_from_string_array(_, _)
add_from_string_array(s, array) ==
    IF array = <<>> THEN s
    ELSE add_from_string_array(s \o Head(array) \o <<"\n">>, Tail(array))

add_description(s, desc) ==
    add_from_string_array(s \o <<"- Description: ">>, desc)

RECURSIVE add_params_in_function(_, _)
add_params_in_function(s, params) ==
    IF params = <<>> THEN s
    ELSE add_params_in_function(
             s \o Head(params).name \o (IF Len(params) > 1 THEN <<", ">> ELSE <<>>),
             Tail(params))

param_line(lead, param) ==
    <<lead>> \o param.type_name \o <<" (^">> \o param.name \o <<"^): ">>
        \o param.desc \o <<"\n">>

RECURSIVE param_bullets(_, _)
param_bullets(s, params) ==
    IF params = <<>> THEN s
    ELSE param_bullets(s \o param_line("  - ", Head(params)), Tail(params))

add_params(s, params) ==
    IF Len(params) = 1
    THEN s \o param_line("- Parameter - ", params[1])
    ELSE param_bullets(s \o <<"- Parameters:", "\n">>, params)

RECURSIVE replace(_)
replace(example) ==
    IF example = <<>> THEN <<>>
    ELSE (IF Head(example) = "\t" THEN <<" ", " ", " ", " ">> ELSE <<Head(example)>>)
             \o replace(Tail(example))

ends_with_newline(s) == s # <<>> /\ Last(s) = "\n"

(* variant: one `if` in place of the `while` *)
strip_last_newline(s) == IF ends_with_newline(s) THEN Front(s) ELSE s

RECURSIVE strip_newlines(_)
strip_newlines(s) ==
    IF ends_with_newline(s) THEN strip_newlines(Front(s)) ELSE s

(* variant: `len() > 0` in place of `len() > 1` *)
examples_heading_nonempty(exs) ==
    IF Len(exs) > 0 THEN <<"- Examples:", "\n">> ELSE <<"- Example:", "\n">>

examples_heading(exs) ==
    IF Len(exs) > 1 THEN <<"- Examples:", "\n">> ELSE <<"- Example:", "\n">>

example_block(s, example) ==
    strip_newlines(s \o <<"^^^kt", "\n">> \o replace(example)) \o <<"\n", "^^^", "\n">>

RECURSIVE example_blocks(_, _)
example_blocks(s, exs) ==
    IF exs = <<>> THEN s
    ELSE example_blocks(example_block(s, Head(exs)), Tail(exs))

add_examples(s, exs) == example_blocks(s \o examples_heading(exs), exs)

(* serde: a required field that is missing makes from_value fail *)
function_valid(f) == f.name.some

constructor_valid(c) == c.desc.some /\ c.examples.some

member_valid(m) == m.name.some

items(list_op) == IF list_op.some THEN {list_op.v[k] : k \in DOMAIN list_op.v} ELSE {}

class_valid(c) ==
    /\ c.name.some
    /\ \A m \in items(c.static_members) \cup items(c.members) : member_valid(m)
    /\ \A k \in items(c.constructors) : constructor_valid(k)
    /\ \A f \in items(c.methods) \cup items(c.static_methods) : function_valid(f)

RECURSIVE throws_bullets(_, _)
throws_bullets(s, throws) ==
    IF throws = <<>> THEN s
    ELSE throws_bullets(s \o <<"  - ^'">> \o Head(throws) \o <<"'^", "\n">>,
                        Tail(throws))

function_heading(class_op, function) ==
    LET s1 == <<"### ^">> \o (IF class_op.some THEN class_op.v \o <<".">> ELSE <<>>)
                  \o function.name.v \o <<"(">>
        s2 == IF function.params.some
              THEN add_params_in_function(s1, function.params.v) ELSE s1
    IN  s2 \o <<")^", "\n">>

function_deprecated(s, function) ==
    IF function.deprecated.some
    THEN add_from_string_array(s \o <<"- Deprecated: ">>, function.deprecated.v)
    ELSE s

function_detail(s2, function) ==
    LET s3 == IF function.params.some THEN add_params(s2, function.params.v) ELSE s2
        s4 == IF function.returns.some
              THEN s3 \o <<"- Returns - ">> \o function.returns.v.type_name
                      \o <<": ">> \o function.returns.v.desc \o <<"\n">>
              ELSE s3
        s5 == IF function.throws.some
              THEN throws_bullets(s4 \o <<"- Throws - Error:", "\n">>,
                                  function.throws.v)
              ELSE s4
    IN  add_examples(s5, function.examples.v)

(* variant: `if let Some(desc)` in place of function.desc.unwrap() *)
add_function_desc_optional(class_op, function) ==
    IF ~function.examples.some THEN [tag |-> "none"]
    ELSE LET s1 == function_deprecated(function_heading(class_op, function),
                                       function)
         IN  [tag |-> "some",
              md |-> function_detail(
                         IF function.desc.some
                         THEN add_description(s1, function.desc.v) ELSE s1,
                         function)]

(* Option<String>, or a panic: tag is "none", "some" or "panic" *)
add_function(class_op, function) ==
    IF ~function.examples.some THEN [tag |-> "none"]
    ELSE IF ~function.desc.some THEN Panic
    ELSE [tag |-> "some",
          md |-> function_detail(
                     add_description(
                         function_deprecated(
                             function_heading(class_op, function), function),
                         function.desc.v),
                     function)]

(* the call a loop makes for one entry; parse_extension (class_op = None)
   deserializes the entry first, a class's functions are deserialized with
   the class *)
loop_call(class_op, f) ==
    IF ~class_op.some /\ ~function_valid(f) THEN Panic
    ELSE add_function(class_op, f)

(* what a loop does with the result of the call: `more` is the loop's test
   that an entry follows (iter.peek().is_some(), i + 1 < functions.len()) *)
loop_push(s, r, more) ==
    IF r.tag = "none" THEN s
    ELSE s \o r.md \o (IF more THEN <<"\n">> ELSE <<>>)

RECURSIVE function_loop(_, _, _, _)
function_loop(s, class_op, fns, k) ==
    IF k = Len(fns) THEN Ok(s)
    ELSE LET r == loop_call(class_op, fns[k + 1])
         IN  IF r.tag = "panic" THEN Panic
             ELSE function_loop(loop_push(s, r, k + 1 < Len(fns)),
                                class_op, fns, k + 1)

extension_heading(name) == <<"## ">> \o name \o <<"\n", "\n">>

(* functions = None: the group's value is not an array *)
parse_extension(name, fns_op) ==
    IF ~fns_op.some THEN Panic
    ELSE function_loop(extension_heading(name), None, fns_op.v, 0)

(* variant: a member that is not assignable is skipped as well *)
member_skipped_unless_assignable(member) == member.assignable # Some(TRUE)

member_skipped(member) == ~member.assignable.some

RECURSIVE add_member(_, _, _)
add_member(s, class_name, members) ==
    IF members = <<>> THEN Ok(s)
    ELSE LET member == Head(members)
         IN  IF member_skipped(member)
             THEN add_member(s, class_name, Tail(members))
             ELSE IF ~member.desc.some \/ ~member.type_name.some
                     \/ ~member.examples.some
             THEN Panic
             ELSE LET s1 == s \o <<"### ^">> \o class_name \o <<".">>
                              \o member.name.v \o <<"^", "\n">>
                      s2 == add_description(s1, member.desc.v)
                      s3 == s2 \o <<"- Type: ">> \o member.type_name.v \o <<"\n">>
                      s4 == s3 \o <<"- Assignable: ">>
                               \o (IF member.assignable.v THEN <<"true">>
                                   ELSE <<"false">>) \o <<"\n">>
                  IN  add_member(add_examples(s4, member.examples.v),
                                 class_name, Tail(members))

RECURSIVE add_constructors(_, _, _)
add_constructors(s, name, constructors) ==
    IF constructors = <<>> THEN s
    ELSE LET c == Head(constructors)
             s1 == s \o <<"### ^new ">> \o name \o <<"(">>
             s2 == IF c.params.some THEN add_params_in_function(s1, c.params.v)
                   ELSE s1
             s3 == add_description(s2 \o <<")^", "\n">>, c.desc.v)
             s4 == IF c.params.some THEN add_params(s3, c.params.v) ELSE s3
         IN  add_constructors(add_examples(s4, c.examples.v), name,
                              Tail(constructors))

nonempty(list_op) == list_op.some /\ list_op.v # <<>>

member_class(name) == <<"<">> \o name \o <<">">>

class_header(class) ==
    LET s1 == <<"# ">> \o class.name.v \o <<" class", "\n">> \o class.name.v
                  \o <<" class for Arucas.", "\n", "\n">>
        s2 == IF class.desc.some
              THEN add_from_string_array(s1, class.desc.v) \o <<"\n">>
              ELSE s1
        s3 == IF class.import_path.some
              THEN s2 \o <<"Import with ^import ">> \o class.import_path.v
                      \o <<" from ">> \o class.import_path.v \o <<";^", "\n", "\n">>
              ELSE s2 \o <<"Class does not need to be imported.", "\n", "\n">>
    IN  s3 \o <<"Fully Documented.", "\n", "\n">>

static_members_section(s, class) ==
    IF nonempty(class.static_members)
    THEN LET r == add_member(s \o <<"## Static Members", "\n", "\n">>,
                             class.name.v, class.static_members.v)
         IN  IF r.tag = "panic" THEN Panic ELSE Ok(r.md \o <<"\n">>)
    ELSE Ok(s)

members_section(s, class) ==
    IF nonempty(class.members)
    THEN LET r == add_member(s \o <<"## Members", "\n", "\n">>,
                             member_class(class.name.v), class.members.v)
         IN  IF r.tag = "panic" THEN Panic ELSE Ok(r.md \o <<"\n">>)
    ELSE Ok(s)

constructors_section(s, class) ==
    IF nonempty(class.constructors)
    THEN add_constructors(s \o <<"## Constructors", "\n", "\n">>, class.name.v,
                          class.constructors.v) \o <<"\n">>
    ELSE s

methods_heading == <<"## Methods", "\n", "\n">>

static_methods_heading == <<"## Static Methods", "\n", "\n">>

methods_section(s, class) ==
    IF nonempty(class.methods)
    THEN LET r == function_loop(s \o methods_heading,
                                Some(member_class(class.name.v)),
                                class.methods.v, 0)
         IN  IF r.tag = "panic" THEN Panic ELSE Ok(r.md \o <<"\n">>)
    ELSE Ok(s)

static_methods_section(s, class) ==
    IF nonempty(class.static_methods)
    THEN function_loop(s \o static_methods_heading,
                       Some(class.name.v), class.static_methods.v, 0)
    ELSE Ok(s)

parse_class(class) ==
    IF ~class_valid(class) THEN Panic
    ELSE LET r1 == static_members_section(class_header(class), class)
         IN  IF r1.tag = "panic" THEN Panic
         ELSE LET r2 == members_section(r1.md, class)
         IN  IF r2.tag = "panic" THEN Panic
         ELSE LET r3 == methods_section(constructors_section(r2.md, class), class)
         IN  IF r3.tag = "panic" THEN Panic
         ELSE static_methods_section(r3.md, class)

RECURSIVE classes_loop(_, _)
classes_loop(s, classes) ==
    IF classes = <<>> THEN Ok(s)
    ELSE LET r == parse_class(Head(classes))
         IN  IF r.tag = "panic" THEN Panic
             ELSE classes_loop(s \o r.md \o (IF Len(classes) > 1 THEN <<"\n", "\n">>
                                             ELSE <<>>),
                               Tail(classes))

(* doc.classes = None: json["classes"] is not an object *)
parse_classes(doc) ==
    IF ~doc.classes.some THEN Panic ELSE classes_loop(<<>>, doc.classes.v)

RECURSIVE extensions_loop(_, _)
extensions_loop(s, extensions) ==
    IF extensions = <<>> THEN Ok(s)
    ELSE LET r == parse_extension(Head(extensions).name, Head(extensions).functions)
         IN  IF r.tag = "panic" THEN Panic
             ELSE extensions_loop(
                      s \o r.md \o (IF Len(extensions) > 1 THEN <<"\n", "\n">>
                                    ELSE <<>>),
                      Tail(extensions))

parse_extensions(doc) ==
    IF ~doc.extensions.some THEN Panic
    ELSE extensions_loop(<<>>, doc.extensions.v)

----------------------------------------------------------------------------
(* Inputs *)

Ex == <<"x">>

Fn(desc, params, exs) ==
    [name |-> Some(<<"f">>), deprecated |-> None, desc |-> desc, params |-> params,
     returns |-> None, throws |-> None, examples |-> exs]

FnOk == Fn(Some(<<<<"d">>>>), None, Some(<<Ex>>))
FnNoExamples == Fn(Some(<<<<"d">>>>), None, None)
FnNoDesc == Fn(None, None, Some(<<Ex>>))
FnInvalid == [FnOk EXCEPT !.name = None]

Cls(methods, static_methods) ==
    [name |-> Some(<<"Foo">>), desc |-> None, import_path |-> None,
     static_members |-> None, members |-> None, constructors |-> None,
     methods |-> methods, static_methods |-> static_methods]

MainClasses ==
    { [Cls(None, None) EXCEPT !.name = None],
      Cls(Some(<<FnOk>>), None),
      Cls(Some(<<FnNoDesc>>), None),
      Cls(None, Some(<<FnNoDesc>>)) }

MainGroups ==
    { [name |-> <<"g">>, functions |-> fns] :
        fns \in {None, Some(<<>>), Some(<<FnOk>>), Some(<<FnNoExamples>>),
                 Some(<<FnNoDesc>>), Some(<<FnInvalid>>)} }

Documents ==
    { [kind |-> "doc", classes |-> c, extensions |-> e] :
        c \in {None} \cup {Some(l) : l \in SeqsUpTo(MainClasses, MaxClasses)},
        e \in {None} \cup {Some(l) : l \in SeqsUpTo(MainGroups, MaxGroups)} }

InputFiles == {[kind |-> "unreadable"], [kind |-> "not_json"]} \cup Documents

Paths == {"Classes.md", "Extensions.md"}

Absent == [state |-> "absent", content |-> <<>>]
Old == [state |-> "old", content |-> <<"old">>]

----------------------------------------------------------------------------
(* main.rs *)

Idle ==
    /\ section = [kind |-> "none", class_op |-> None]
    /\ functions = <<>>
    /\ i = 0
    /\ func_s = [tag |-> "none"]
    /\ seps = 0
    /\ rendered = 0
    /\ mark = 0
    /\ examples = <<>>
    /\ class_v = Cls(None, None)

Init ==
    /\ pc = "new"
    /\ md = <<>>
    /\ json \in InputFiles
    /\ files \in {[p \in Paths |-> Absent], [p \in Paths |-> Old]}
    /\ io = [p \in Paths \cup {"AllDocs.json"} |-> 0]
    /\ failure = "none"
    /\ Idle

rest == <<section, functions, i, func_s, seps, rendered, mark, examples, class_v>>

panic(what) ==
    /\ pc' = "panic"
    /\ failure' = what

New ==
    /\ pc = "new"
    /\ io' = [io EXCEPT !["AllDocs.json"] = @ + 1]
    /\ IF json.kind = "unreadable" THEN panic("read")
       ELSE IF json.kind = "not_json" THEN panic("parse")
       ELSE pc' = "parse_classes" /\ failure' = failure
    /\ UNCHANGED <<md, json, files, rest>>

(* variant: a failed render of the classes is skipped, not fatal *)
ParseClasses_recovering ==
    /\ pc = "parse_classes"
    /\ LET r == parse_classes(json)
       IN  IF r.tag = "panic"
           THEN pc' = "parse_extensions" /\ md' = md /\ failure' = failure
           ELSE pc' = "write_classes" /\ md' = r.md /\ failure' = failure
    /\ UNCHANGED <<json, files, io, rest>>

ParseClasses ==
    /\ pc = "parse_classes"
    /\ LET r == parse_classes(json)
       IN  IF r.tag = "panic"
           THEN panic("classes") /\ md' = md
           ELSE pc' = "write_classes" /\ md' = r.md /\ failure' = failure
    /\ UNCHANGED <<json, files, io, rest>>

(* variant: the Result of fs::write is dropped *)
fs_write_unchecked(path, contents, next, what) ==
    /\ io' = [io EXCEPT ![path] = @ + 1]
    /\ files' \in {[files EXCEPT ![path] =
                        [state |-> "written", content |-> contents]],
                    files,
                    [files EXCEPT ![path] =
                        [state |-> "partial", content |-> <<>>]]}
    /\ pc' = next
    /\ failure' = failure

(* fs::write(path, contents).expect(..): a failed write leaves the file as it
   was (it could not be opened) or truncated (it was opened, not written) *)
fs_write(path, contents, next, what) ==
    /\ io' = [io EXCEPT ![path] = @ + 1]
    /\ \/ /\ files' = [files EXCEPT ![path] =
                           [state |-> "written", content |-> contents]]
          /\ pc' = next
          /\ failure' = failure
       \/ /\ files' \in {files,
                         [files EXCEPT ![path] =
                              [state |-> "partial", content |-> <<>>]]}
          /\ panic(what)

WriteClasses ==
    /\ pc = "write_classes"
    /\ fs_write("Classes.md", md, "parse_extensions", "write_classes")
    /\ UNCHANGED <<md, json, rest>>

ParseExtensions ==
    /\ pc = "parse_extensions"
    /\ LET r == parse_extensions(json)
       IN  IF r.tag = "panic"
           THEN panic("extensions") /\ md' = md
           ELSE pc' = "write_extensions" /\ md' = r.md /\ failure' = failure
    /\ UNCHANGED <<json, files, io, rest>>

WriteExtensions ==
    /\ pc = "write_extensions"
    /\ fs_write("Extensions.md", md, "exit", "write_extensions")
    /\ UNCHANGED <<md, json, rest>>

Next ==
    \/ New
    \/ ParseClasses
    \/ WriteClasses
    \/ ParseExtensions
    \/ WriteExtensions

Spec == Init /\ [][Next]_vars

----------------------------------------------------------------------------
(* Claims about main *)

Count(s, t) == Cardinality({k \in DOMAIN s : s[k] = t})

Unwritten(p) == io[p] = 0 /\ files[p].state \in {"absent", "old"}

ListOf(list_op) == IF list_op.some THEN list_op.v ELSE <<>>

Elements(s) == {s[k] : k \in DOMAIN s}

ClassFunctions(doc) ==
    UNION { Elements(ListOf(c.methods)) \cup Elements(ListOf(c.static_methods)) :
            c \in Elements(ListOf(doc.classes)) }

ExtensionFunctions(doc) ==
    UNION { Elements(ListOf(g.functions)) : g \in Elements(ListOf(doc.extensions)) }

ExampleButNoDesc(f) == f.examples.some /\ f.examples.v # <<>> /\ ~f.desc.some

(* every level-3 heading of a text is followed by its description line
   before the next level-3 heading *)
EveryEntryDescribed(s) ==
    \A k \in DOMAIN s :
        s[k] = "### ^" =>
            \E j \in (k + 1)..Len(s) :
                /\ s[j] = "- Description: "
                /\ \A h \in (k + 1)..(j - 1) : s[h] # "### ^"

(* C1: when a render aborts on a schema violation, neither Classes.md nor
   Extensions.md has been written or overwritten by the run *)
C1_NoWriteUnlessBothRendered ==
    failure \in {"classes", "extensions"} => \A p \in Paths : Unwritten(p)

(* C4: a function with at least one example and no description aborts the
   run: the run never exits normally with such a function in the input, the
   file its fragment belongs to is never written, and no text built or
   written holds a level-3 entry without its description line *)
C4_ExampleWithoutDescAborts ==
    /\ json.kind = "doc" =>
        /\ (\E f \in ClassFunctions(json) : ExampleButNoDesc(f))
               => pc \in {"new", "parse_classes", "panic"}
                  /\ Unwritten("Classes.md") /\ Unwritten("Extensions.md")
        /\ (\E f \in ExtensionFunctions(json) : ExampleButNoDesc(f))
               => pc \notin {"write_extensions", "exit"}
                  /\ Unwritten("Extensions.md")
    /\ EveryEntryDescribed(md)
    /\ \A p \in Paths : EveryEntryDescribed(files[p].content)

C4_Witness ==
    /\ pc = "panic"
    /\ failure = "extensions"
    /\ files["Classes.md"].state = "written"
    /\ Count(files["Classes.md"].content, "### ^") = 1
    /\ json.extensions = Some(<<[name |-> <<"g">>, functions |-> Some(<<FnNoDesc>>)]>>)

(* C5: the process exits normally only with both files written; it aborts on
   a failed read, a failed JSON parse and a failed write; no fs call is made
   twice *)
C5_ExitOnlyAfterBothWritten ==
    /\ pc = "exit" =>
        /\ \A p \in Paths : files[p].state = "written" /\ io[p] = 1
        /\ failure = "none" /\ json.kind = "doc"
    /\ (json.kind \in {"unreadable", "not_json"} /\ pc # "new") => pc = "panic"
    /\ \A p \in Paths : (io[p] > 0 /\ files[p].state # "written") => pc = "panic"
    /\ \A p \in DOMAIN io : io[p] <= 1

C5_Witness ==
    /\ pc = "exit"
    /\ files["Classes.md"].state = "written"
    /\ files["Extensions.md"].state = "written"
    /\ files["Extensions.md"].content # <<>>

(* C10: Extensions.md is written only after Classes.md was written, the
   extensions document is rendered only after Classes.md was written, and a
   failure in loading or in rendering the classes leaves both files unwritten *)
C10_ClassesWrittenFirst ==
    /\ ~Unwritten("Extensions.md") => files["Classes.md"].state = "written"
    /\ (pc \in {"write_extensions", "exit"}
            \/ failure \in {"extensions", "write_extensions"})
           => files["Classes.md"].state = "written"
    /\ failure \in {"read", "parse", "classes"} => \A p \in Paths : Unwritten(p)

C10_Witness ==
    /\ pc = "write_extensions"
    /\ files["Classes.md"].state = "written"
    /\ Unwritten("Extensions.md")
    /\ md # files["Classes.md"].content

----------------------------------------------------------------------------
(* The function loops of parse_class (Methods, Static Methods) and of
   parse_extension, one iteration a step *)

P1 == [name |-> <<"a">>, type_name |-> <<"T">>, desc |-> <<"pa">>]
P2 == [name |-> <<"b">>, type_name |-> <<"U">>, desc |-> <<"pb">>]

FnFull ==
    [name |-> Some(<<"f">>), deprecated |-> Some(<<<<"dep">>>>),
     desc |-> Some(<<<<"d">>>>), params |-> Some(<<P1>>),
     returns |-> Some([type_name |-> <<"T">>, desc |-> <<"rd">>]),
     throws |-> Some(<<<<"err">>>>), examples |-> Some(<<Ex, Ex>>)]

LoopFunctions ==
    { Fn(Some(<<<<"d">>>>), p, e) :
        p \in {None, Some(<<>>), Some(<<P1>>), Some(<<P1, P2>>)},
        e \in {None, Some(<<>>), Some(<<Ex>>)} }
    \cup { Fn(None, None, e) : e \in {None, Some(<<>>), Some(<<Ex>>)} }
    \cup { FnFull, FnInvalid }

Sections ==
    { [kind |-> "methods", class_op |-> Some(member_class(<<"Foo">>))],
      [kind |-> "static_methods", class_op |-> Some(<<"Foo">>)],
      [kind |-> "extension", class_op |-> None] }

IdleMain ==
    /\ json = [kind |-> "unreadable"]
    /\ files = [p \in Paths |-> Absent]
    /\ io = [p \in Paths \cup {"AllDocs.json"} |-> 0]
    /\ failure = "none"

InitFunctions ==
    /\ pc = "begin"
    /\ md = <<>>
    /\ section \in Sections
    /\ functions \in SeqsUpTo(LoopFunctions, MaxFns)
    /\ section.kind # "extension" =>
           \A k \in DOMAIN functions : function_valid(functions[k])
    /\ i = 0
    /\ func_s = [tag |-> "none"]
    /\ seps = 0
    /\ rendered = 0
    /\ mark = 0
    /\ examples = <<>>
    /\ class_v = Cls(None, None)
    /\ IdleMain

(* a class section is entered only for a non-empty list; an extension group
   always gets its heading *)
SectionBegin ==
    /\ pc = "begin"
    /\ IF section.kind = "extension"
       THEN md' = extension_heading(<<"g">>) /\ pc' = "loop"
       ELSE IF functions # <<>>
       THEN /\ md' = (IF section.kind = "methods" THEN methods_heading
                      ELSE static_methods_heading)
            /\ pc' = "loop"
       ELSE md' = md /\ pc' = "end"
    /\ UNCHANGED <<json, files, io, failure, section, functions, i, func_s, seps,
                   rendered, mark, examples, class_v>>

SectionIter ==
    /\ pc = "loop"
    /\ i < Len(functions)
    /\ LET r == loop_call(section.class_op, functions[i + 1])
       IN  /\ func_s' = r
           /\ mark' = Len(md)
           /\ IF r.tag = "panic"
              THEN pc' = "panic" /\ UNCHANGED <<md, i, seps, rendered>>
              ELSE /\ pc' = pc
                   /\ i' = i + 1
                   /\ md' = loop_push(md, r, i + 1 < Len(functions))
                   /\ rendered' = rendered + (IF r.tag = "some" THEN 1 ELSE 0)
                   /\ seps' = seps + (Len(md') - Len(md))
                                   - (IF r.tag = "some" THEN Len(r.md) ELSE 0)
    /\ UNCHANGED <<json, files, io, failure, section, functions, examples, class_v>>

SectionEnd ==
    /\ pc = "loop"
    /\ i = Len(functions)
    /\ md' = md \o (IF section.kind = "methods" THEN <<"\n">> ELSE <<>>)
    /\ pc' = "end"
    /\ UNCHANGED <<json, files, io, failure, section, functions, i, func_s, seps,
                   rendered, mark, examples, class_v>>

NextFunctions == SectionBegin \/ SectionIter \/ SectionEnd

SpecFunctions == InitFunctions /\ [][NextFunctions]_vars

(* the entry the last iteration handled *)
Current == functions[i]

Iterated == pc = "loop" /\ i > 0

NoExamples(f) == ~f.examples.some \/ f.examples.v = <<>>

NoParams(f) == ~f.params.some \/ f.params.v = <<>>

(* C2: a function whose examples are absent or empty is skipped: add_function
   returns None and the loop adds nothing to the section, no separator
   included *)
C2_NoExamplesSkipped ==
    (Iterated /\ NoExamples(Current)) =>
        func_s.tag = "none" /\ Len(md) = mark

(* an entry that either has no examples key or has at least one example *)
Plain(f) == ~f.examples.some \/ f.examples.v # <<>>

AllPlain == \A k \in DOMAIN functions : Plain(functions[k])

(* C3: a finished section holds one separator between two rendered entries
   and none elsewhere: rendered - 1 separators, 0 when nothing rendered
   (taken over lists of plain entries, where skipped means no examples key) *)
C3_SeparatorsBetweenRendered ==
    (pc = "end" /\ AllPlain) => seps = (IF rendered >= 1 THEN rendered - 1 ELSE 0)

(* C9: the fragment of a function whose params are absent or empty holds no
   parameter detail (taken over functions with at least one example) *)
C9_NoParamsNoDetail ==
    (Iterated /\ func_s.tag = "some" /\ ~NoExamples(Current) /\ NoParams(Current)) =>
        Count(func_s.md, "- Parameter - ") = 0 /\ Count(func_s.md, "- Parameters:") = 0

----------------------------------------------------------------------------
(* add_examples, one example a step *)

Chars == {"x", "\t", "\n"}

TabThreeNewlines == <<"\t", "x", "\n", "\n", "\n">>

ExampleStrings == SeqsUpTo(Chars, MaxLen) \cup {TabThreeNewlines}

(* what callers have pushed before the call *)
Prefixes == { <<"- Description: ">>, <<"- Type: ", "T", "\n">> }

InitExamples ==
    /\ pc = "begin"
    /\ md \in Prefixes
    /\ examples \in SeqsUpTo(ExampleStrings, MaxExamples)
    /\ i = 0
    /\ mark = 0
    /\ section = [kind |-> "none", class_op |-> None]
    /\ functions = <<>>
    /\ func_s = [tag |-> "none"]
    /\ seps = 0
    /\ rendered = 0
    /\ class_v = Cls(None, None)
    /\ IdleMain

ExamplesBegin ==
    /\ pc = "begin"
    /\ md' = md \o examples_heading(examples)
    /\ mark' = Len(md)
    /\ pc' = "loop"
    /\ UNCHANGED <<json, files, io, failure, section, functions, i, func_s, seps,
                   rendered, examples, class_v>>

ExampleIter ==
    /\ pc = "loop"
    /\ i < Len(examples)
    /\ md' = example_block(md, examples[i + 1])
    /\ mark' = Len(md)
    /\ i' = i + 1
    /\ UNCHANGED <<pc, json, files, io, failure, section, functions, func_s, seps,
                   rendered, examples, class_v>>

ExamplesEnd ==
    /\ pc = "loop"
    /\ i = Len(examples)
    /\ pc' = "end"
    /\ UNCHANGED <<md, json, files, io, failure, section, functions, i, func_s,
                   seps, rendered, mark, examples, class_v>>

NextExamples == ExamplesBegin \/ ExampleIter \/ ExamplesEnd

SpecExamples == InitExamples /\ [][NextExamples]_vars

(* what the last step appended to md *)
Appended == SubSeq(md, mark + 1, Len(md))

TabsUpTo(e, k) == Cardinality({j \in 1..k : e[j] = "\t"})

(* c is e with every tab written as four spaces *)
TabsAsSpaces(e, c) ==
    /\ Len(c) = Len(e) + 3 * TabsUpTo(e, Len(e))
    /\ \A k \in DOMAIN e :
           LET at == k + 3 * TabsUpTo(e, k - 1)
           IN  IF e[k] = "\t"
               THEN \A d \in 0..3 : c[at + d] = " "
               ELSE c[at] = e[k]

(* e without its trailing newline characters *)
WithoutTrailingNewlines(e) ==
    LET keep == {k \in 0..Len(e) :
                    /\ k > 0 => e[k] # "\n"
                    /\ \A j \in (k + 1)..Len(e) : e[j] = "\n"}
    IN  SubSeq(e, 1, CHOOSE k \in keep : TRUE)

(* b is the fenced block of example e *)
FencedBlock(e, b) ==
    /\ Len(b) >= 4
    /\ b[1] = "^^^kt"
    /\ SubSeq(b, Len(b) - 2, Len(b)) = <<"\n", "^^^", "\n">>
    /\ Count(b, "^^^") = 1
    /\ b[Len(b) - 3] # "\n"
    /\ Count(b, "\t") = 0
    /\ LET inner == SubSeq(b, 2, Len(b) - 3)
           body == WithoutTrailingNewlines(e)
       IN  IF body = <<>> THEN inner = <<>>
           ELSE inner[1] = "\n" /\ TabsAsSpaces(body, Tail(inner))

(* C6: the block of an example is the opening fence line, the example with
   every tab as four spaces and without its trailing newlines, and one
   closing fence with no blank line before it *)
C6_FencedBlock ==
    (pc = "loop" /\ i > 0) => FencedBlock(examples[i], Appended)

C6_Witness ==
    /\ pc = "loop"
    /\ i > 0
    /\ examples[i] = TabThreeNewlines
    /\ Appended = <<"^^^kt", "\n", " ", " ", " ", " ", "x", "\n", "^^^", "\n">>

HeadingStep == (pc = "loop" /\ i = 0) \/ (pc = "end" /\ examples = <<>>)

(* C8 as stated: "- Example:" for exactly one example, "- Examples:" for
   every other length, the empty list included *)
C8_SingularOnlyForOne ==
    HeadingStep =>
        Appended = <<(IF Len(examples) = 1 THEN "- Example:" ELSE "- Examples:"),
                     "\n">>

(* C8 amended: "- Examples:" for more than one example, "- Example:" for one
   example and for the empty list *)
C8_PluralOnlyForMany ==
    HeadingStep =>
        Appended = <<(IF Len(examples) > 1 THEN "- Examples:" ELSE "- Example:"),
                     "\n">>

C8_Witness ==
    /\ pc = "end"
    /\ examples = <<>>
    /\ Appended = <<"- Example:", "\n">>

----------------------------------------------------------------------------
(* parse_class *)

Mem(assignable, desc, type_name, exs) ==
    [name |-> Some(<<"m">>), assignable |-> assignable, desc |-> desc,
     type_name |-> type_name, examples |-> exs]

MemUndocumented == Mem(None, None, None, None)

MemFull(b) == Mem(Some(b), Some(<<<<"d">>>>), Some(<<"T">>), Some(<<Ex>>))

ClassMembers ==
    { MemUndocumented, MemFull(TRUE), MemFull(FALSE),
      Mem(Some(TRUE), None, Some(<<"T">>), Some(<<Ex>>)) }

Ctor == [desc |-> Some(<<<<"d">>>>), params |-> Some(<<P1>>), examples |-> Some(<<Ex>>)]

MemberLists == {None} \cup {Some(l) : l \in SeqsUpTo(ClassMembers, MaxMembers)}

ClassInputs ==
    { [name |-> Some(<<"Foo">>), desc |-> d[1], import_path |-> d[2],
       static_members |-> sm, members |-> m, constructors |-> c,
       methods |-> f, static_methods |-> sf] :
        d \in {<<None, None>>, <<Some(<<<<"d">>>>), Some(<<"util">>)>>},
        sm \in MemberLists, m \in MemberLists,
        c \in {None, Some(<<>>), Some(<<Ctor>>)},
        f \in {None, Some(<<>>), Some(<<FnOk>>), Some(<<FnNoExamples>>)},
        sf \in {None, Some(<<>>), Some(<<FnOk>>), Some(<<FnNoExamples>>)} }
    \cup { [Cls(None, None) EXCEPT !.name = None] }

InitClass ==
    /\ pc = "call"
    /\ md = <<>>
    /\ class_v \in ClassInputs
    /\ section = [kind |-> "none", class_op |-> None]
    /\ functions = <<>>
    /\ i = 0
    /\ func_s = [tag |-> "none"]
    /\ seps = 0
    /\ rendered = 0
    /\ mark = 0
    /\ examples = <<>>
    /\ IdleMain

ParseClass ==
    /\ pc = "call"
    /\ LET r == parse_class(class_v)
       IN  IF r.tag = "panic"
           THEN pc' = "panic" /\ md' = md
           ELSE pc' = "returned" /\ md' = r.md
    /\ UNCHANGED <<json, files, io, failure, section, functions, i, func_s, seps,
                   rendered, mark, examples, class_v>>

NextClass == ParseClass

SpecClass == InitClass /\ [][NextClass]_vars

Level2 ==
    {"## Static Members", "## Members", "## Constructors", "## Methods",
     "## Static Methods"}

(* the tokens of s after its first token h, up to the next level-2 heading *)
SectionOf(s, h) ==
    LET at == CHOOSE k \in DOMAIN s : s[k] = h /\ \A j \in 1..(k - 1) : s[j] # h
        stop == {k \in (at + 1)..Len(s) : s[k] \in Level2}
        end == IF stop = {} THEN Len(s)
               ELSE (CHOOSE k \in stop : \A j \in stop : k <= j) - 1
    IN  SubSeq(s, at + 1, end)

Flagged(list) == Cardinality({k \in DOMAIN list : list[k].assignable.some})

Empty(list_op) == ~list_op.some \/ list_op.v = <<>>

(* one static member and one instance member, both with their assignability
   flag, and nothing else *)
OneAndOne(c) ==
    /\ c.name.some
    /\ c.static_members.some /\ Len(c.static_members.v) = 1
    /\ c.static_members.v[1].assignable.some
    /\ c.members.some /\ Len(c.members.v) = 1
    /\ c.members.v[1].assignable = Some(TRUE)
    /\ Empty(c.constructors) /\ Empty(c.methods) /\ Empty(c.static_methods)

(* C7: a rendered class with one static member and one instance member
   (flag present) and nothing else has exactly one "## Static Members" and one
   "## Members" section of one level-3 entry each and no other level-2
   heading; in every rendered class a member section holds one level-3 entry
   per member that has the flag, so a member without it contributes none *)
C7_MemberSections ==
    pc = "returned" =>
        /\ OneAndOne(class_v) =>
            /\ Count(md, "## Static Members") = 1
            /\ Count(md, "## Members") = 1
            /\ Count(SectionOf(md, "## Static Members"), "### ^") = 1
            /\ Count(SectionOf(md, "## Members"), "### ^") = 1
            /\ Count(md, "## Constructors") = 0
            /\ Count(md, "## Methods") = 0
            /\ Count(md, "## Static Methods") = 0
        /\ ~Empty(class_v.static_members) =>
            /\ Count(md, "## Static Members") = 1
            /\ Count(SectionOf(md, "## Static Members"), "### ^")
                   = Flagged(class_v.static_members.v)
        /\ ~Empty(class_v.members) =>
            /\ Count(md, "## Members") = 1
            /\ Count(SectionOf(md, "## Members"), "### ^")
                   = Flagged(class_v.members.v)

C7_Witness ==
    /\ pc = "returned"
    /\ OneAndOne(class_v)
    /\ class_v.static_members.v[1].assignable = Some(FALSE)
    /\ Count(SectionOf(md, "## Static Members"), "### ^") = 1
    /\ Count(SectionOf(md, "## Members"), "### ^") = 1

C7_WitnessSkipped ==
    /\ pc = "returned"
    /\ class_v.members = Some(<<MemUndocumented>>)
    /\ Count(md, "## Members") = 1
    /\ Count(SectionOf(md, "## Members"), "### ^") = 0

====
